---- MODULE Spec2Model ----
(***************************************************************************)
(* The vault lifecycle of one-year-vault: the useVault hook with the       *)
(* bootstrap auto-lock and the preset password, the IndexedDB store with   *)
(* its two object stores "draft" and "locked", and the crypto wrappers.    *)
(*                                                                         *)
(* IndexedDB is modelled by what it guarantees: requests run in the order  *)
(* their transactions were created (txq), the writes of a transaction      *)
(* become visible together when it completes, and an aborted transaction   *)
(* leaves nothing behind.  WebCrypto is modelled symbolically: a key is    *)
(* the pair it was derived from, an AES-GCM ciphertext carries plaintext,  *)
(* key and iv, and decryption authenticates key and iv.                    *)
(*                                                                         *)
(* Every async handler is cut at its awaits: the call (guard, synchronous  *)
(* part, first request) is one action and each continuation is another.    *)
(* The variable last holds the outcome of the call that completed in the   *)
(* step just taken (NoCall after any other step).  lastSaved (the content   *)
(* of the last saveDraft whose put succeeded, and whether the page was     *)
(* reloaded since) and wrongTried (an unlockVault has just failed on a     *)
(* password other than the one the record was sealed with) are history     *)
(* variables read by the properties only.  editor is the state of the Home  *)
(* component (the text of the textarea, the status its sync effect has     *)
(* seen, the pending save timer); no step of the hook changes it.          *)
(***************************************************************************)
EXTENDS Integers, Sequences, FiniteSets, TLC

\* ---------------------------------------------------------------- bounds
MaxTime == 1
MaxInflight == 2
MaxRand == 1
MaxLen == 2

\* ------------------------------------------------------------- constants
LockDate == 1
\* A JavaScript string is the sequence of its UTF-16 code units.
PresetPassword == <<68, 80, 66, 89, 68, 84>>          \* "DPBYDT"

Passwords == {PresetPassword, <<97, 98, 99>>}          \* "DPBYDT", "abc"
Texts == {<<>>, <<97>>}                                \* "", "a"
Slots == 1..MaxInflight
RandomValues == 1..MaxRand
CheckStatusId == 0

VARIABLES now, draft, locked, state, db, error, boot, ops, txq,
          last, lastSaved, wrongTried, editor

vars == <<now, draft, locked, state, db, error, boot, ops, txq,
          last, lastSaved, wrongTried, editor>>

\* ------------------------------------------------------------ the records
Absent == [kind |-> "absent"]
Malformed == [kind |-> "malformed"]

VaultContent(content, lastUpdated) ==
    [kind |-> "VaultContent", content |-> content, lastUpdated |-> lastUpdated]

EncryptedVault(ciphertext, iv, salt, lockedAt) ==
    [kind |-> "EncryptedVault", ciphertext |-> ciphertext, iv |-> iv,
     salt |-> salt, lockedAt |-> lockedAt]

vaultContentSchema(data) == data.kind = "VaultContent"
encryptedVaultSchema(data) == data.kind = "EncryptedVault"

\* ------------------------------------------------------------ VaultState
Loading == [status |-> "loading"]
Open(content, lastUpdated) ==
    [status |-> "open", content |-> content, lastUpdated |-> lastUpdated]
\* A variant of Locked that stamps the state from the clock instead of taking
\* the lockedAt it is given.
Locked_fromClock(lockedAt) == [status |-> "locked", lockedAt |-> now]
Locked(lockedAt) == [status |-> "locked", lockedAt |-> lockedAt]

\* ---------------------------------------------------------------- crypto
\* TextEncoder.encode: the UTF-8 bytes of a string.  A surrogate pair is one
\* scalar value; a surrogate that is not part of a pair is encoded as U+FFFD.
IsHighSurrogate(c) == c >= 55296 /\ c <= 56319
IsLowSurrogate(c) == c >= 56320 /\ c <= 57343

Utf8Bytes(cp) ==
    IF cp < 128 THEN <<cp>>
    ELSE IF cp < 2048 THEN <<192 + (cp \div 64), 128 + (cp % 64)>>
    ELSE IF cp < 65536
         THEN <<224 + (cp \div 4096), 128 + ((cp \div 64) % 64), 128 + (cp % 64)>>
         ELSE <<240 + (cp \div 262144), 128 + ((cp \div 4096) % 64),
                128 + ((cp \div 64) % 64), 128 + (cp % 64)>>

RECURSIVE TextEncoderEncode(_)
TextEncoderEncode(str) ==
    IF str = <<>> THEN <<>>
    ELSE IF IsHighSurrogate(str[1]) /\ Len(str) >= 2 /\ IsLowSurrogate(str[2])
         THEN Utf8Bytes(65536 + (str[1] - 55296) * 1024 + (str[2] - 56320))
              \o TextEncoderEncode(Tail(Tail(str)))
    ELSE IF IsHighSurrogate(str[1]) \/ IsLowSurrogate(str[1])
         THEN Utf8Bytes(65533) \o TextEncoderEncode(Tail(str))
    ELSE Utf8Bytes(str[1]) \o TextEncoderEncode(Tail(str))

\* The UTF-16 code units of a scalar value.
Utf16Units(cp) ==
    IF cp < 65536 THEN <<cp>>
    ELSE <<55296 + ((cp - 65536) \div 1024), 56320 + ((cp - 65536) % 1024)>>

\* The UTF-8 decoder of TextDecoder.decode over the bytes from position i: a
\* well-formed sequence gives its scalar value, any other byte gives U+FFFD.
IsContinuation(bytes, i) == i <= Len(bytes) /\ bytes[i] >= 128 /\ bytes[i] < 192

RECURSIVE Utf8Decode(_, _)
Utf8Decode(bytes, i) ==
    IF i > Len(bytes) THEN <<>>
    ELSE LET b == bytes[i] IN
         IF b < 128 THEN <<b>> \o Utf8Decode(bytes, i + 1)
         ELSE IF b >= 194 /\ b < 224 /\ IsContinuation(bytes, i + 1)
              THEN <<(b - 192) * 64 + (bytes[i + 1] - 128)>> \o Utf8Decode(bytes, i + 2)
         ELSE IF b >= 224 /\ b < 240 /\ IsContinuation(bytes, i + 1)
                 /\ IsContinuation(bytes, i + 2)
                 /\ (b - 224) * 4096 + (bytes[i + 1] - 128) * 64 >= 2048
                 /\ ~IsHighSurrogate((b - 224) * 4096 + (bytes[i + 1] - 128) * 64)
                 /\ ~IsLowSurrogate((b - 224) * 4096 + (bytes[i + 1] - 128) * 64)
              THEN <<(b - 224) * 4096 + (bytes[i + 1] - 128) * 64 + (bytes[i + 2] - 128)>>
                   \o Utf8Decode(bytes, i + 3)
         ELSE IF b >= 240 /\ b < 245 /\ IsContinuation(bytes, i + 1)
                 /\ IsContinuation(bytes, i + 2) /\ IsContinuation(bytes, i + 3)
                 /\ (b - 240) * 262144 + (bytes[i + 1] - 128) * 4096 >= 65536
                 /\ (b - 240) * 262144 + (bytes[i + 1] - 128) * 4096 < 1114112
              THEN Utf16Units((b - 240) * 262144 + (bytes[i + 1] - 128) * 4096
                              + (bytes[i + 2] - 128) * 64 + (bytes[i + 3] - 128))
                   \o Utf8Decode(bytes, i + 4)
         ELSE <<65533>> \o Utf8Decode(bytes, i + 1)

\* new TextDecoder().decode: UTF-8, not fatal, ignoreBOM false: a byte order
\* mark at the start of the bytes is dropped.
TextDecoderDecode(bytes) ==
    LET str == Utf8Decode(bytes, 1)
    IN  IF str # <<>> /\ str[1] = 65279 THEN Tail(str) ELSE str

\* PBKDF2 and AES-GCM are symbolic: a key is what it was derived from (the
\* bytes of the password and the salt), a ciphertext what it was made of, and
\* decryption authenticates key and iv.
deriveKey(password, salt) == [password |-> TextEncoderEncode(password), salt |-> salt]

encryptContent(content, key, iv) ==
    [plaintext |-> TextEncoderEncode(content), key |-> key, iv |-> iv]

decryptContent(ciphertext, key, iv) ==
    IF ciphertext.key = key /\ ciphertext.iv = iv
    THEN [ok |-> TRUE, content |-> TextDecoderDecode(ciphertext.plaintext)]
    ELSE [ok |-> FALSE, content |-> <<>>]

bufferToBase64(buffer) == [base64 |-> buffer]
base64ToBuffer(base64) == base64.base64

\* ------------------------------------------------- calls and their results
Idle == [op |-> "idle"]
NoCall == [op |-> "none", res |-> "none", fault |-> "none", arg |-> "", data |-> Absent]

LockFailed == "Failed to lock vault. Please try again."
IncorrectPassword == "Incorrect password. Please try again."
IncorrectOrCorrupted == "Incorrect password or corrupted data."

\* op completed with res: "done" (ran to its end), "ignored" (returned at its
\* guard) or the message of the error thrown; fault names what failed under
\* it ("none", "store" for a request, "commit" for a transaction, "crypto",
\* "random"); arg is the call's argument.
Result(op, res, fault, arg, data) ==
    [op |-> op, res |-> res, fault |-> fault, arg |-> arg, data |-> data]

\* A step that completes no call reports none.
Quiet == last' = NoCall

FreeSlot(i) == ops[i] = Idle /\ \A j \in Slots : j < i => ops[j] # Idle

AtHead(id) == txq # <<>> /\ Head(txq) = id

\* Home before its first event: useState(""), no timer in saveTimeoutRef; the
\* sync effect has run for the status loading.
EditorIdle == [content |-> <<>>, status |-> "loading", saveTimeoutRef |-> <<>>]

BootIdle == [pc |-> "initDB", content |-> <<>>, lastUpdated |-> 0, vault |-> Absent,
             draftData |-> Absent]

Init ==
    /\ now = 0
    /\ draft \in {Absent, Malformed}
    /\ locked \in {Absent, Malformed}
    /\ state = Loading
    /\ db = FALSE
    /\ error = "null"
    /\ boot = BootIdle
    /\ ops = [i \in Slots |-> Idle]
    /\ txq = <<>>
    /\ last = NoCall
    /\ lastSaved = <<>>
    /\ wrongTried = FALSE
    /\ editor = EditorIdle

\* The clock behind Date.now() and new Date().
Tick ==
    /\ now < MaxTime
    /\ now' = now + 1
    /\ UNCHANGED <<draft, locked, state, db, error, boot, ops, txq, lastSaved, wrongTried>>
    /\ Quiet

\* ------------------------------------------------------------- bootstrap
\* A variant of initDB whose failure is not reported in error.
initDB_silent ==
    /\ boot.pc = "initDB"
    /\ \/ /\ db' = TRUE
          /\ boot' = [boot EXCEPT !.pc = "getLocked"]
          /\ txq' = Append(txq, CheckStatusId)
       \/ /\ boot' = [boot EXCEPT !.pc = "failed"]
          /\ UNCHANGED <<db, txq>>
    /\ UNCHANGED <<now, draft, locked, state, error, ops, lastSaved, wrongTried>>
    /\ Quiet

\* openDB resolves and setDb starts checkStatus with its first read, or it
\* rejects and error is set.
initDB ==
    /\ boot.pc = "initDB"
    /\ \/ /\ db' = TRUE
          /\ boot' = [boot EXCEPT !.pc = "getLocked"]
          /\ txq' = Append(txq, CheckStatusId)
          /\ UNCHANGED error
       \/ /\ error' = "Could not initialize storage."
          /\ boot' = [boot EXCEPT !.pc = "failed"]
          /\ UNCHANGED <<db, txq>>
    /\ UNCHANGED <<now, draft, locked, state, ops, lastSaved, wrongTried>>
    /\ Quiet

checkStatus_getLocked ==
    /\ boot.pc = "getLocked"
    /\ AtHead(CheckStatusId)
    /\ \/ /\ locked # Absent /\ encryptedVaultSchema(locked)
          /\ state' = Locked(locked.lockedAt)
          /\ boot' = [boot EXCEPT !.pc = "ready"]
          /\ txq' = Tail(txq)
          /\ last' = Result("checkStatus", "locked", "none", "", locked)
          /\ UNCHANGED error
       \/ /\ ~(locked # Absent /\ encryptedVaultSchema(locked))
          /\ boot' = [boot EXCEPT !.pc = "getDraft"]
          /\ txq' = Append(Tail(txq), CheckStatusId)
          /\ Quiet
          /\ UNCHANGED <<state, error>>
       \/ /\ error' = "Failed to load vault status."
          /\ boot' = [boot EXCEPT !.pc = "failed"]
          /\ txq' = Tail(txq)
          /\ last' = Result("checkStatus", "error", "store", "", Absent)
          /\ UNCHANGED state
    /\ UNCHANGED <<now, draft, locked, db, ops, lastSaved, wrongTried>>

\* A variant of DraftContent that never takes the content of the draft read.
DraftContent_empty(draftData) == <<>>
DraftContent(draftData) ==
    IF draftData # Absent /\ vaultContentSchema(draftData) THEN draftData.content ELSE <<>>

DraftLastUpdated(draftData) ==
    IF draftData # Absent /\ vaultContentSchema(draftData)
    THEN draftData.lastUpdated ELSE now

\* A variant of AutoLockDue in which the lock date is never reached.
AutoLockDue_never == FALSE
\* A variant of AutoLockDue that locks only strictly after the lock date.
AutoLockDue_strictlyAfter == now > LockDate
AutoLockDue == now >= LockDate

checkStatus_getDraft ==
    /\ boot.pc = "getDraft"
    /\ AtHead(CheckStatusId)
    /\ txq' = Tail(txq)
    /\ \/ /\ AutoLockDue
          /\ boot' = [boot EXCEPT !.pc = "crypto", !.content = DraftContent(draft),
                                  !.lastUpdated = DraftLastUpdated(draft),
                                  !.draftData = draft]
          /\ Quiet
          /\ UNCHANGED <<state, error>>
       \/ /\ ~AutoLockDue
          /\ state' = Open(DraftContent(draft), DraftLastUpdated(draft))
          /\ boot' = [boot EXCEPT !.pc = "ready"]
          /\ last' = Result("checkStatus", "open", "none", "", draft)
          /\ UNCHANGED error
       \/ /\ error' = "Failed to load vault status."
          /\ boot' = [boot EXCEPT !.pc = "failed"]
          /\ last' = Result("checkStatus", "error", "store", "", Absent)
          /\ UNCHANGED state
    /\ UNCHANGED <<now, draft, locked, db, ops, lastSaved, wrongTried>>

\* A variant of AutoLockVault that seals empty content instead of the content
\* read from the draft.
\* The auto-lock branch of checkStatus: salt and iv are drawn, the key derived
\* from the preset password and the content encrypted; the record takes
\* Date.now() and the readwrite transaction over both stores is created with
\* its put request.  A failure of any of these is caught and opens the vault.
AutoLockVault_emptyContent(content, salt, iv) ==
    EncryptedVault(bufferToBase64(encryptContent(<<>>, deriveKey(PresetPassword, salt), iv)),
                   bufferToBase64(iv), bufferToBase64(salt), now)
AutoLockVault(content, salt, iv) ==
    EncryptedVault(bufferToBase64(encryptContent(content, deriveKey(PresetPassword, salt), iv)),
                   bufferToBase64(iv), bufferToBase64(salt), now)

checkStatus_autoLock ==
    /\ boot.pc = "crypto"
    /\ \/ \E salt \in RandomValues, iv \in RandomValues :
             /\ boot' = [boot EXCEPT !.pc = "put",
                                     !.vault = AutoLockVault(boot.content, salt, iv)]
             /\ txq' = Append(txq, CheckStatusId)
             /\ Quiet
             /\ UNCHANGED state
       \/ /\ state' = Open(boot.content, boot.lastUpdated)
          /\ boot' = [BootIdle EXCEPT !.pc = "ready"]
          /\ last' = Result("checkStatus", "open", "crypto", "", boot.draftData)
          /\ UNCHANGED txq
    /\ UNCHANGED <<now, draft, locked, db, error, ops, lastSaved, wrongTried>>

checkStatus_txPut ==
    /\ boot.pc = "put"
    /\ AtHead(CheckStatusId)
    /\ boot' = [boot EXCEPT !.pc = "delete"]
    /\ UNCHANGED <<now, draft, locked, state, db, error, ops, txq, lastSaved, wrongTried>>
    /\ Quiet

checkStatus_txDone ==
    /\ boot.pc = "delete"
    /\ AtHead(CheckStatusId)
    /\ locked' = boot.vault
    /\ draft' = Absent
    /\ state' = Locked(boot.vault.lockedAt)
    /\ boot' = [BootIdle EXCEPT !.pc = "ready"]
    /\ txq' = Tail(txq)
    /\ last' = Result("checkStatus", "autolocked", "none", "", boot.draftData)
    /\ wrongTried' = FALSE
    /\ UNCHANGED <<now, db, error, ops, lastSaved>>

\* A variant of checkStatus_txAbort without the inner catch: the failure of
\* the auto-lock transaction fails the bootstrap.
checkStatus_txAbort_failsBootstrap ==
    /\ boot.pc \in {"put", "delete"}
    /\ AtHead(CheckStatusId)
    /\ error' = "Failed to load vault status."
    /\ boot' = [BootIdle EXCEPT !.pc = "failed"]
    /\ txq' = Tail(txq)
    /\ last' = Result("checkStatus", "error", "commit", "", boot.draftData)
    /\ UNCHANGED <<now, draft, locked, state, db, ops, lastSaved, wrongTried>>

\* A request of the auto-lock transaction fails, or its commit does: the
\* transaction aborts and the catch of the auto-lock opens the vault.
checkStatus_txAbort ==
    /\ boot.pc \in {"put", "delete"}
    /\ AtHead(CheckStatusId)
    /\ state' = Open(boot.content, boot.lastUpdated)
    /\ boot' = [BootIdle EXCEPT !.pc = "ready"]
    /\ txq' = Tail(txq)
    /\ last' = Result("checkStatus", "open", "commit", "", boot.draftData)
    /\ UNCHANGED <<now, draft, locked, db, error, ops, lastSaved, wrongTried>>

\* A page reload or a crash: everything in memory is gone, the requests and
\* the transaction in flight with it; the store keeps what was committed.
Reload ==
    /\ boot.pc # "initDB"
    /\ state' = Loading
    /\ db' = FALSE
    /\ error' = "null"
    /\ boot' = BootIdle
    /\ ops' = [i \in Slots |-> Idle]
    /\ txq' = <<>>
    /\ wrongTried' = FALSE
    /\ lastSaved' = IF lastSaved = <<>> THEN <<>>
                    ELSE <<[lastSaved[1] EXCEPT !.interrupted = TRUE]>>
    /\ Quiet
    /\ UNCHANGED <<now, draft, locked>>

\* -------------------------------------------------------------- saveDraft
saveDraft(content) ==
    /\ \/ /\ ~db
          /\ last' = Result("saveDraft", "ignored", "none", content, [calledIn |-> state.status])
          /\ UNCHANGED <<ops, txq>>
       \/ /\ db
          /\ \E i \in Slots :
                /\ FreeSlot(i)
                /\ ops' = [ops EXCEPT ![i] = [op |-> "saveDraft", pc |-> "put",
                                               content |-> content, lastUpdated |-> now,
                                               calledIn |-> state.status]]
                /\ txq' = Append(txq, i)
          /\ Quiet
    /\ wrongTried' = FALSE
    /\ UNCHANGED <<now, draft, locked, state, db, error, boot, lastSaved>>

\* A variant of saveDraft_put that writes the record and leaves the in-memory
\* state as it was.
saveDraft_put_stateStale(i) ==
    /\ ops[i].op = "saveDraft"
    /\ AtHead(i)
    /\ txq' = Tail(txq)
    /\ ops' = [ops EXCEPT ![i] = Idle]
    /\ \/ /\ draft' = VaultContent(ops[i].content, ops[i].lastUpdated)
          /\ last' = Result("saveDraft", "done", "none", ops[i].content,
                            [calledIn |-> ops[i].calledIn])
          /\ lastSaved' = <<[content |-> ops[i].content, interrupted |-> FALSE]>>
          /\ UNCHANGED <<error, state>>
       \/ /\ error' = "Failed to save changes."
          /\ last' = Result("saveDraft", "done", "store", ops[i].content,
                            [calledIn |-> ops[i].calledIn])
          /\ UNCHANGED <<draft, state, lastSaved>>
    /\ UNCHANGED <<now, locked, db, boot, wrongTried>>

\* The put resolves (the record is replaced as a whole) and setState mirrors
\* it when the status is open; or the put rejects and error is set.
saveDraft_put(i) ==
    /\ ops[i].op = "saveDraft"
    /\ AtHead(i)
    /\ txq' = Tail(txq)
    /\ ops' = [ops EXCEPT ![i] = Idle]
    /\ \/ /\ draft' = VaultContent(ops[i].content, ops[i].lastUpdated)
          /\ state' = IF state.status = "open"
                      THEN [state EXCEPT !.content = ops[i].content,
                                         !.lastUpdated = ops[i].lastUpdated]
                      ELSE state
          /\ last' = Result("saveDraft", "done", "none", ops[i].content,
                            [calledIn |-> ops[i].calledIn])
          /\ lastSaved' = <<[content |-> ops[i].content, interrupted |-> FALSE]>>
          /\ UNCHANGED error
       \/ /\ error' = "Failed to save changes."
          /\ last' = Result("saveDraft", "done", "store", ops[i].content,
                            [calledIn |-> ops[i].calledIn])
          /\ UNCHANGED <<draft, state, lastSaved>>
    /\ UNCHANGED <<now, locked, db, boot, wrongTried>>

\* -------------------------------------------------------------- lockVault
\* The guard and the synchronous part: the content of the rendered state is
\* captured, salt and iv are drawn (the random source may throw), and
\* deriveKey is awaited.
lockVault(password) ==
    /\ \/ /\ ~db \/ state.status # "open"
          /\ last' = Result("lockVault", "ignored", "none", password, Absent)
          /\ UNCHANGED ops
       \/ /\ db /\ state.status = "open"
          /\ last' = Result("lockVault", LockFailed, "random", password, Absent)
          /\ UNCHANGED ops
       \/ /\ db /\ state.status = "open"
          /\ \E i \in Slots, salt \in RandomValues, iv \in RandomValues :
                /\ FreeSlot(i)
                /\ ops' = [ops EXCEPT ![i] = [op |-> "lockVault", pc |-> "crypto",
                                               password |-> password,
                                               content |-> state.content,
                                               salt |-> salt, iv |-> iv,
                                               vault |-> Absent]]
          /\ Quiet
    /\ wrongTried' = FALSE
    /\ UNCHANGED <<now, draft, locked, state, db, error, boot, txq, lastSaved>>

LockVaultData(content, password, salt, iv) ==
    EncryptedVault(bufferToBase64(encryptContent(content, deriveKey(password, salt), iv)),
                   bufferToBase64(iv), bufferToBase64(salt), now)

\* deriveKey and encryptContent resolve (or one of them rejects); vaultData
\* takes Date.now() and the readwrite transaction is created with its put.
lockVault_encrypt(i) ==
    /\ ops[i].op = "lockVault" /\ ops[i].pc = "crypto"
    /\ \/ /\ ops' = [ops EXCEPT ![i].pc = "put",
                                ![i].vault = LockVaultData(ops[i].content, ops[i].password,
                                                           ops[i].salt, ops[i].iv)]
          /\ txq' = Append(txq, i)
          /\ Quiet
       \/ /\ ops' = [ops EXCEPT ![i] = Idle]
          /\ last' = Result("lockVault", LockFailed, "crypto", ops[i].password, Absent)
          /\ UNCHANGED txq
    /\ UNCHANGED <<now, draft, locked, state, db, error, boot, lastSaved, wrongTried>>

\* The put request of the transaction succeeds: the record is staged, not yet
\* visible, and the delete request is issued.
lockVault_txPut(i) ==
    /\ ops[i].op = "lockVault" /\ ops[i].pc = "put"
    /\ AtHead(i)
    /\ ops' = [ops EXCEPT ![i].pc = "delete"]
    /\ UNCHANGED <<now, draft, locked, state, db, error, boot, txq, lastSaved, wrongTried>>
    /\ Quiet

\* A variant of lockVault_txDone whose transaction does not delete the draft.
lockVault_txDone_draftKept(i) ==
    /\ ops[i].op = "lockVault" /\ ops[i].pc = "delete"
    /\ AtHead(i)
    /\ locked' = ops[i].vault
    /\ state' = Locked(ops[i].vault.lockedAt)
    /\ ops' = [ops EXCEPT ![i] = Idle]
    /\ txq' = Tail(txq)
    /\ last' = Result("lockVault", "done", "none", ops[i].password,
                      [content |-> ops[i].content])
    /\ wrongTried' = FALSE
    /\ UNCHANGED <<now, draft, db, error, boot, lastSaved>>

\* The delete request succeeds and tx.done resolves: both writes become
\* visible at once, then setState.
lockVault_txDone(i) ==
    /\ ops[i].op = "lockVault" /\ ops[i].pc = "delete"
    /\ AtHead(i)
    /\ locked' = ops[i].vault
    /\ draft' = Absent
    /\ state' = Locked(ops[i].vault.lockedAt)
    /\ ops' = [ops EXCEPT ![i] = Idle]
    /\ txq' = Tail(txq)
    /\ last' = Result("lockVault", "done", "none", ops[i].password,
                      [content |-> ops[i].content])
    /\ wrongTried' = FALSE
    /\ UNCHANGED <<now, db, error, boot, lastSaved>>

\* A variant of lockVault_txAbort in which the put of the failed transaction
\* stays in the store (two separate writes instead of one transaction).
lockVault_txAbort_putVisible(i) ==
    /\ ops[i].op = "lockVault" /\ ops[i].pc \in {"put", "delete"}
    /\ AtHead(i)
    /\ locked' = ops[i].vault
    /\ ops' = [ops EXCEPT ![i] = Idle]
    /\ txq' = Tail(txq)
    /\ last' = Result("lockVault", LockFailed, "commit", ops[i].password, Absent)
    /\ UNCHANGED <<now, draft, state, db, error, boot, lastSaved, wrongTried>>

\* A request of the transaction fails, or its commit does: the transaction
\* aborts, nothing of it is visible, and the catch rethrows.
lockVault_txAbort(i) ==
    /\ ops[i].op = "lockVault" /\ ops[i].pc \in {"put", "delete"}
    /\ AtHead(i)
    /\ ops' = [ops EXCEPT ![i] = Idle]
    /\ txq' = Tail(txq)
    /\ last' = Result("lockVault", LockFailed, "commit", ops[i].password, Absent)
    /\ UNCHANGED <<now, draft, locked, state, db, error, boot, lastSaved, wrongTried>>

\* ------------------------------------------------------------ unlockVault
\* What a symbolic ciphertext was made from (read by the properties).
SealedPassword(vault) == TextDecoderDecode(base64ToBuffer(vault.ciphertext).key.password)
SealedContent(vault) == TextDecoderDecode(base64ToBuffer(vault.ciphertext).plaintext)
HasVault == locked # Absent /\ encryptedVaultSchema(locked)
HasDraft == draft # Absent /\ vaultContentSchema(draft)

unlockVault(password) ==
    /\ \/ /\ ~db \/ state.status # "locked"
          /\ last' = Result("unlockVault", "ignored", "none", password, Absent)
          /\ UNCHANGED <<ops, txq, wrongTried>>
       \/ /\ db /\ state.status = "locked"
          /\ password # PresetPassword
          /\ last' = Result("unlockVault", IncorrectPassword, "none", password, locked)
          /\ wrongTried' = IF HasVault /\ SealedPassword(locked) # password
                           THEN TRUE ELSE wrongTried
          /\ UNCHANGED <<ops, txq>>
       \/ /\ db /\ state.status = "locked"
          /\ password = PresetPassword
          /\ \E i \in Slots :
                /\ FreeSlot(i)
                /\ ops' = [ops EXCEPT ![i] = [op |-> "unlockVault", pc |-> "get",
                                               password |-> password, vault |-> Absent,
                                               content |-> <<>>, lastUpdated |-> 0]]
                /\ txq' = Append(txq, i)
          /\ Quiet
          /\ UNCHANGED wrongTried
    /\ UNCHANGED <<now, draft, locked, state, db, error, boot, lastSaved>>

unlockVault_get(i) ==
    /\ ops[i].op = "unlockVault" /\ ops[i].pc = "get"
    /\ AtHead(i)
    /\ txq' = Tail(txq)
    /\ \/ /\ locked # Absent /\ encryptedVaultSchema(locked)
          /\ ops' = [ops EXCEPT ![i].pc = "crypto", ![i].vault = locked]
          /\ Quiet
       \/ /\ ~(locked # Absent /\ encryptedVaultSchema(locked))
          /\ ops' = [ops EXCEPT ![i] = Idle]
          /\ last' = Result("unlockVault", IncorrectOrCorrupted, "none", ops[i].password, locked)
       \/ /\ ops' = [ops EXCEPT ![i] = Idle]
          /\ last' = Result("unlockVault", IncorrectOrCorrupted, "store", ops[i].password, Absent)
    /\ UNCHANGED <<now, draft, locked, state, db, error, boot, lastSaved, wrongTried>>

\* The buffers of a stored record are rebuilt, the key derived from a password
\* and the stored salt, and the ciphertext decrypted.
DecryptWith(vault, password) ==
    decryptContent(base64ToBuffer(vault.ciphertext),
                   deriveKey(password, base64ToBuffer(vault.salt)),
                   base64ToBuffer(vault.iv))

\* A variant of Decrypted that derives the key from another password.
Decrypted_otherPassword(vault) == DecryptWith(vault, <<97, 98, 99>>)
\* unlockVault derives the key from the preset password and the stored salt.
Decrypted(vault) == DecryptWith(vault, PresetPassword)

\* The buffers are rebuilt, the key derived from the preset password and the
\* ciphertext decrypted; on success the readwrite transaction is created with
\* the put of the draft, whose lastUpdated is the Date.now() of that moment.
unlockVault_decrypt(i) ==
    /\ ops[i].op = "unlockVault" /\ ops[i].pc = "crypto"
    /\ \/ /\ Decrypted(ops[i].vault).ok
          /\ ops' = [ops EXCEPT ![i].pc = "put",
                                ![i].content = Decrypted(ops[i].vault).content,
                                ![i].lastUpdated = now]
          /\ txq' = Append(txq, i)
          /\ Quiet
          /\ UNCHANGED wrongTried
       \/ /\ ~Decrypted(ops[i].vault).ok
          /\ ops' = [ops EXCEPT ![i] = Idle]
          /\ last' = Result("unlockVault", IncorrectOrCorrupted, "none",
                            ops[i].password, ops[i].vault)
          /\ wrongTried' = IF locked = ops[i].vault THEN TRUE ELSE wrongTried
          /\ UNCHANGED txq
       \/ /\ ops' = [ops EXCEPT ![i] = Idle]
          /\ last' = Result("unlockVault", IncorrectOrCorrupted, "crypto",
                            ops[i].password, ops[i].vault)
          /\ UNCHANGED <<txq, wrongTried>>
    /\ UNCHANGED <<now, draft, locked, state, db, error, boot, lastSaved>>

\* A variant of unlockVault_txPut whose put is visible at once (a put outside
\* the transaction).
unlockVault_txPut_immediate(i) ==
    /\ ops[i].op = "unlockVault" /\ ops[i].pc = "put"
    /\ AtHead(i)
    /\ draft' = VaultContent(ops[i].content, ops[i].lastUpdated)
    /\ ops' = [ops EXCEPT ![i].pc = "delete"]
    /\ UNCHANGED <<now, locked, state, db, error, boot, txq, lastSaved, wrongTried>>
    /\ Quiet

unlockVault_txPut(i) ==
    /\ ops[i].op = "unlockVault" /\ ops[i].pc = "put"
    /\ AtHead(i)
    /\ ops' = [ops EXCEPT ![i].pc = "delete"]
    /\ UNCHANGED <<now, draft, locked, state, db, error, boot, txq, lastSaved, wrongTried>>
    /\ Quiet

unlockVault_txDone(i) ==
    /\ ops[i].op = "unlockVault" /\ ops[i].pc = "delete"
    /\ AtHead(i)
    /\ draft' = VaultContent(ops[i].content, ops[i].lastUpdated)
    /\ locked' = Absent
    /\ state' = Open(ops[i].content, now)
    /\ ops' = [ops EXCEPT ![i] = Idle]
    /\ txq' = Tail(txq)
    /\ last' = Result("unlockVault", "done", "none", ops[i].password, ops[i].vault)
    /\ wrongTried' = FALSE
    /\ UNCHANGED <<now, db, error, boot, lastSaved>>

\* A variant of unlockVault_txAbort that resets the state to loading when the
\* transaction fails.
unlockVault_txAbort_loading(i) ==
    /\ ops[i].op = "unlockVault" /\ ops[i].pc \in {"put", "delete"}
    /\ AtHead(i)
    /\ state' = Loading
    /\ ops' = [ops EXCEPT ![i] = Idle]
    /\ txq' = Tail(txq)
    /\ last' = Result("unlockVault", IncorrectOrCorrupted, "commit",
                      ops[i].password, ops[i].vault)
    /\ UNCHANGED <<now, draft, locked, db, error, boot, lastSaved, wrongTried>>

\* A request of the transaction fails, or its commit does: nothing of it is
\* visible, the state stays as it was and the catch rethrows.
unlockVault_txAbort(i) ==
    /\ ops[i].op = "unlockVault" /\ ops[i].pc \in {"put", "delete"}
    /\ AtHead(i)
    /\ ops' = [ops EXCEPT ![i] = Idle]
    /\ txq' = Tail(txq)
    /\ last' = Result("unlockVault", IncorrectOrCorrupted, "commit",
                      ops[i].password, ops[i].vault)
    /\ UNCHANGED <<now, draft, locked, state, db, error, boot, lastSaved, wrongTried>>

\* ---------------------------------------------------------- downloadVault
downloadVault ==
    /\ \/ /\ ~db
          /\ last' = Result("downloadVault", "ignored", "none", "", Absent)
          /\ UNCHANGED <<ops, txq>>
       \/ /\ db
          /\ \E i \in Slots :
                /\ FreeSlot(i)
                /\ ops' = [ops EXCEPT ![i] = [op |-> "downloadVault", pc |-> "get"]]
                /\ txq' = Append(txq, i)
          /\ Quiet
    /\ wrongTried' = FALSE
    /\ UNCHANGED <<now, draft, locked, state, db, error, boot, lastSaved>>

\* JSON.stringify(value, null, 2): the text that holds the fields of the value
\* with their values (strings and finite numbers are written as they are).
JSONstringify(value) == [json |-> value]

\* A variant of downloadVault_get that stamps the exported record with the
\* time of the export.
downloadVault_get_restamped(i) ==
    /\ ops[i].op = "downloadVault"
    /\ AtHead(i)
    /\ txq' = Tail(txq)
    /\ ops' = [ops EXCEPT ![i] = Idle]
    /\ \/ /\ locked = Absent
          /\ last' = Result("downloadVault", "ignored", "none", "", Absent)
       \/ /\ locked # Absent
          /\ last' = Result("downloadVault", "done", "none", "",
                            JSONstringify([locked EXCEPT !.lockedAt = now]))
       \/ last' = Result("downloadVault", "rejected", "store", "", Absent)
    /\ UNCHANGED <<now, draft, locked, state, db, error, boot, lastSaved, wrongTried>>

\* The get resolves; JSON.stringify(lockedData) goes to the file: the stored
\* value as it is.
downloadVault_get(i) ==
    /\ ops[i].op = "downloadVault"
    /\ AtHead(i)
    /\ txq' = Tail(txq)
    /\ ops' = [ops EXCEPT ![i] = Idle]
    /\ \/ /\ locked = Absent
          /\ last' = Result("downloadVault", "ignored", "none", "", Absent)
       \/ /\ locked # Absent
          /\ last' = Result("downloadVault", "done", "none", "", JSONstringify(locked))
       \/ last' = Result("downloadVault", "rejected", "store", "", Absent)
    /\ UNCHANGED <<now, draft, locked, state, db, error, boot, lastSaved, wrongTried>>

\* ----------------------------------------------------------- UnlockDialog
\* A variant of handleSubmit that shows the message of the error it caught.
handleSubmit_errMessage(res) == IF res \in {"done", "ignored"} THEN "" ELSE res
\* handleSubmit of UnlockDialog awaits onConfirm (unlockVault): the error text
\* is cleared first and stays so when the call resolves; when it rejects, the
\* catch sets a fixed text and does not read the error it caught.
handleSubmit(res) ==
    IF res \in {"done", "ignored"} THEN "" ELSE "Incorrect password. Please try again."

Next ==
    \/ Tick /\ UNCHANGED editor
    \/ initDB /\ UNCHANGED editor
    \/ checkStatus_getLocked /\ UNCHANGED editor
    \/ checkStatus_getDraft /\ UNCHANGED editor
    \/ checkStatus_autoLock /\ UNCHANGED editor
    \/ checkStatus_txPut /\ UNCHANGED editor
    \/ checkStatus_txDone /\ UNCHANGED editor
    \/ checkStatus_txAbort /\ UNCHANGED editor
    \/ Reload /\ UNCHANGED editor
    \/ \E content \in Texts : saveDraft(content) /\ UNCHANGED editor
    \/ \E i \in Slots : saveDraft_put(i) /\ UNCHANGED editor
    \/ \E password \in Passwords : lockVault(password) /\ UNCHANGED editor
    \/ \E i \in Slots : lockVault_encrypt(i) /\ UNCHANGED editor
    \/ \E i \in Slots : lockVault_txPut(i) /\ UNCHANGED editor
    \/ \E i \in Slots : lockVault_txDone(i) /\ UNCHANGED editor
    \/ \E i \in Slots : lockVault_txAbort(i) /\ UNCHANGED editor
    \/ \E password \in Passwords : unlockVault(password) /\ UNCHANGED editor
    \/ \E i \in Slots : unlockVault_get(i) /\ UNCHANGED editor
    \/ \E i \in Slots : unlockVault_decrypt(i) /\ UNCHANGED editor
    \/ \E i \in Slots : unlockVault_txPut(i) /\ UNCHANGED editor
    \/ \E i \in Slots : unlockVault_txDone(i) /\ UNCHANGED editor
    \/ \E i \in Slots : unlockVault_txAbort(i) /\ UNCHANGED editor
    \/ downloadVault /\ UNCHANGED editor
    \/ \E i \in Slots : downloadVault_get(i) /\ UNCHANGED editor

Spec == Init /\ [][Next]_vars

\* ------------------------------------------------------- the Home editor
\* The Home component over the hook: the textarea with its debounced save.
\* The sync effect depends on state.status: it runs after a render in which
\* the status differs from the one it last saw, and takes the content of an
\* Open state into the textarea.
syncContent ==
    /\ editor.status # state.status
    /\ editor' = [editor EXCEPT
                    !.status = state.status,
                    !.content = IF state.status = "open" /\ state.content # editor.content
                                THEN state.content ELSE @]
    /\ UNCHANGED <<now, draft, locked, state, db, error, boot, ops, txq,
                   lastSaved, wrongTried>>
    /\ Quiet

\* A variant of handleTextChange that leaves a pending timer as it is (the
\* save then carries the text of an earlier change).
handleTextChange_keepsTimer(newText) ==
    /\ state.status = "open" /\ editor.status = "open"
    /\ newText # editor.content
    /\ editor' = [editor EXCEPT
                    !.content = newText,
                    !.saveTimeoutRef = IF @ = <<>> THEN <<newText>> ELSE @]
    /\ UNCHANGED <<now, draft, locked, state, db, error, boot, ops, txq,
                   lastSaved, wrongTried>>
    /\ Quiet

\* onChange of the textarea (rendered in state Open only): the text is kept,
\* a pending timer is cleared and a new one is set whose callback holds the
\* new text.
handleTextChange(newText) ==
    /\ state.status = "open" /\ editor.status = "open"
    /\ newText # editor.content
    /\ editor' = [editor EXCEPT !.content = newText, !.saveTimeoutRef = <<newText>>]
    /\ UNCHANGED <<now, draft, locked, state, db, error, boot, ops, txq,
                   lastSaved, wrongTried>>
    /\ Quiet

\* The timer fires: its callback calls saveDraft with the text it holds.
saveTimeout ==
    /\ editor.saveTimeoutRef # <<>>
    /\ saveDraft(editor.saveTimeoutRef[1])
    /\ editor' = [editor EXCEPT !.saveTimeoutRef = <<>>]

\* A reload of the page unmounts Home: the text and the timer go with it.
ReloadHome == Reload /\ editor' = EditorIdle

EditorNext ==
    \/ Tick /\ UNCHANGED editor
    \/ initDB /\ UNCHANGED editor
    \/ checkStatus_getLocked /\ UNCHANGED editor
    \/ checkStatus_getDraft /\ UNCHANGED editor
    \/ checkStatus_autoLock /\ UNCHANGED editor
    \/ checkStatus_txPut /\ UNCHANGED editor
    \/ checkStatus_txDone /\ UNCHANGED editor
    \/ checkStatus_txAbort /\ UNCHANGED editor
    \/ ReloadHome
    \/ syncContent
    \/ \E newText \in Texts : handleTextChange(newText)
    \/ saveTimeout
    \/ \E i \in Slots : saveDraft_put(i) /\ UNCHANGED editor

\* Timers fire, effects run, and requests to the store complete.
EditorFairness ==
    /\ WF_vars(syncContent)
    /\ WF_vars(saveTimeout)
    /\ \A i \in Slots : WF_vars(saveDraft_put(i) /\ UNCHANGED editor)

SpecEditor == Init /\ [][EditorNext]_vars /\ EditorFairness

\* ------------------------------------------------ the crypto module alone
\* The wrappers of lib/crypto called directly, the way lockVault and
\* unlockVault chain them: encryptContent under deriveKey(password, salt),
\* the three buffers through bufferToBase64 and back, then decryptContent
\* under a key derived from a password and the stored salt.  The strings are
\* all sequences of at most MaxLen code units out of Units: "a", U+00E9,
\* U+FEFF, and the two halves of the surrogate pair of U+1F600.
Units == {97, 233, 65279, 55357, 56832}
Strings == UNION {[1..n -> Units] : n \in 0..MaxLen}

CryptoInit ==
    /\ now = 0
    /\ draft = Absent
    /\ locked = Absent
    /\ state = Loading
    /\ db = FALSE
    /\ error = "null"
    /\ boot = BootIdle
    /\ ops = [i \in Slots |-> Idle]
    /\ txq = <<>>
    /\ lastSaved = <<>>
    /\ wrongTried = FALSE
    /\ editor = EditorIdle
    /\ \E content \in Strings, password \in Strings,
          salt \in RandomValues, iv \in RandomValues :
          last = Result("input", "none", "none", content,
                        [password |-> password, salt |-> salt, iv |-> iv])

encryptContentCall ==
    /\ last.op = "input"
    /\ last' = Result("encryptContent", "done", "none", last.arg,
                      [password |-> last.data.password,
                       vault |-> LockVaultData(last.arg, last.data.password,
                                               last.data.salt, last.data.iv)])
    /\ UNCHANGED <<now, draft, locked, state, db, error, boot, ops, txq,
                   lastSaved, wrongTried>>

decryptContentCall(password) ==
    /\ last.op = "encryptContent"
    /\ LET decrypted == DecryptWith(last.data.vault, password)
       IN  last' = Result("decryptContent",
                          IF decrypted.ok THEN "done" ELSE "OperationError",
                          "none", last.arg,
                          [password |-> last.data.password, with |-> password,
                           ok |-> decrypted.ok, content |-> decrypted.content])
    /\ UNCHANGED <<now, draft, locked, state, db, error, boot, ops, txq,
                   lastSaved, wrongTried>>

CryptoNext ==
    \/ encryptContentCall /\ UNCHANGED editor
    \/ \E password \in Strings : decryptContentCall(password) /\ UNCHANGED editor

SpecCrypto == CryptoInit /\ [][CryptoNext]_vars

\* ============================================================ properties
\* A lock or unlock transaction is between its creation and its completion.
CommitInFlight ==
    \/ boot.pc \in {"put", "delete"}
    \/ \E i \in Slots : ops[i].op \in {"lockVault", "unlockVault"} /\ ops[i].pc \in {"put", "delete"}

\* The step is a page reload (the only step that returns boot to initDB).
IsReload == boot.pc # "initDB" /\ boot'.pc = "initDB"

\* C1: after bootstrap has completed and outside of a commit in flight, the
\* store never holds a DraftRecord and an EncryptedRecord at the same time.
C1_NeverBoth ==
    (boot.pc = "ready" /\ ~CommitInFlight) => ~(HasDraft /\ HasVault)

\* C2: right after a lockVault that ran to its end the draft is absent and the
\* encrypted record present; right after an unlockVault that ran to its end
\* the encrypted record is absent and the draft present.
C2_AfterLockAfterUnlock ==
    /\ (last.op = "lockVault" /\ last.res = "done") => (draft = Absent /\ HasVault)
    /\ (last.op = "unlockVault" /\ last.res = "done") => (locked = Absent /\ HasDraft)

C2_Witness ==
    /\ last.op = "lockVault" /\ last.res = "done"
    /\ last.data.content = <<97>>
    /\ lastSaved # <<>> /\ lastSaved[1].content = <<97>>

\* C3: for every content s and passphrase p, s saved while Open, lockVault(p)
\* done, then unlockVault(p) with the same p: the save leaves the state with
\* s, the lock seals the content of the state under p, and the unlock of a
\* record sealed under p, called with p, succeeds and opens with the sealed
\* content.
C3_SaveLockUnlockRoundTrip ==
    /\ (last.op = "saveDraft" /\ last.res = "done" /\ last.fault = "none"
          /\ last.data.calledIn = "open" /\ state.status = "open")
       => state.content = last.arg
    /\ (last.op = "lockVault" /\ last.res = "done")
       => (SealedPassword(locked) = last.arg /\ SealedContent(locked) = last.data.content)
    /\ (last.op = "unlockVault" /\ last.res # "ignored" /\ last.fault = "none"
          /\ encryptedVaultSchema(last.data) /\ SealedPassword(last.data) = last.arg)
       => (last.res = "done" /\ state.status = "open"
             /\ state.content = SealedContent(last.data))

\* C4: the vault locked with p, unlockVault(p') with p' # p fails with a
\* wrong-passphrase error, the state stays Locked, the encrypted record is as
\* it was and no draft is created; a later unlockVault(p) still succeeds.
C4_WrongPassphraseThenRight ==
    /\ (last.op = "unlockVault" /\ last.res # "ignored" /\ last.fault = "none"
          /\ encryptedVaultSchema(last.data) /\ SealedPassword(last.data) # last.arg)
       => (last.res \in {IncorrectPassword, IncorrectOrCorrupted}
             /\ state.status = "locked" /\ locked = last.data)
    /\ (last.op = "unlockVault" /\ last.res # "ignored" /\ last.fault = "none"
          /\ wrongTried
          /\ encryptedVaultSchema(last.data) /\ SealedPassword(last.data) = last.arg)
       => last.res = "done"

\* C5: saveDraft called while the state is not Open issues no request, writes
\* nothing to the store, leaves the in-memory state as it is and sets no error.
C5_SaveWhileNotOpenIsNoOp ==
    [][ /\ (state.status # "open")
           => \A i \in Slots : (ops[i] = Idle => ops'[i].op # "saveDraft")
        /\ (last'.op = "saveDraft" /\ last'.data.calledIn # "open")
           => UNCHANGED <<draft, state, error>> ]_vars

\* C6: a lockVault that fails at any step (random source, key derivation,
\* encryption, store transaction) throws to its caller; neither the failing
\* step nor any earlier step of that call changes the in-memory state, the
\* draft or the encrypted record.
C6_FailedLockChangesNothing ==
    [][ /\ (last'.op = "lockVault" /\ last'.res # "done")
           => (UNCHANGED <<state, draft, locked>>
                 /\ (last'.res = "ignored" \/ (last'.res = LockFailed /\ last'.fault # "none")))
        /\ \A i \in Slots :
              (ops[i].op = "lockVault" /\ ops'[i] # ops[i] /\ ~IsReload)
              => \/ ops'[i].op = "lockVault" /\ UNCHANGED <<state, draft, locked>>
                 \/ ops'[i] = Idle /\ last'.op = "lockVault"
                      /\ last'.res \in {"done", LockFailed}
                      /\ (last'.res = "done" <=> ops[i].pc = "delete" /\ last'.fault = "none") ]_vars

C6_Witness ==
    /\ last.op = "lockVault" /\ last.res = LockFailed /\ last.fault = "commit"
    /\ state.status = "open" /\ state.content = <<97>>
    /\ HasDraft /\ draft.content = <<97>>
    /\ locked = Absent

\* C7: the put-and-delete transaction of lock, unlock and auto-lock is all or
\* nothing: a step of such a transaction that is not its completion (a request
\* succeeding, a request or the commit failing) leaves both slots as they
\* are, and its completion makes the put and the delete visible together.
C7_CommitAllOrNothing ==
    [][ /\ \A i \in Slots :
              (ops[i].op \in {"lockVault", "unlockVault"} /\ ops[i].pc \in {"put", "delete"}
                 /\ ops'[i] # ops[i] /\ ~IsReload)
              => \/ UNCHANGED <<draft, locked>> /\ ~(last'.op = ops[i].op /\ last'.res = "done")
                 \/ /\ ops[i].pc = "delete" /\ last'.op = ops[i].op /\ last'.res = "done"
                    /\ ops[i].op = "lockVault" => (locked' = ops[i].vault /\ draft' = Absent)
                    /\ ops[i].op = "unlockVault"
                         => (draft' = VaultContent(ops[i].content, ops[i].lastUpdated)
                               /\ locked' = Absent)
        /\ (boot.pc \in {"put", "delete"} /\ boot' # boot /\ ~IsReload)
              => \/ UNCHANGED <<draft, locked>> /\ last'.res # "autolocked"
                 \/ /\ boot.pc = "delete" /\ last'.res = "autolocked"
                    /\ locked' = boot.vault /\ draft' = Absent ]_vars

C7_Witness ==
    /\ last.op = "unlockVault" /\ last.fault = "commit"
    /\ HasVault /\ locked = last.data
    /\ draft = Absent
    /\ state.status = "locked"

\* C8: when the process was interrupted after the last saveDraft that
\* succeeded, the next bootstrap ends with that content recoverable: the state
\* is Open with it, or the state is Locked and the encrypted record seals it.
C8_LastSaveRecoverable ==
    (last.op = "checkStatus" /\ last.res \in {"open", "locked", "autolocked"}
       /\ lastSaved # <<>> /\ lastSaved[1].interrupted)
    => \/ state.status = "open" /\ state.content = lastSaved[1].content
       \/ /\ state.status = "locked" /\ HasVault
          /\ SealedContent(locked) = lastSaved[1].content

\* C9: a bootstrap that reads a present, well-formed encrypted record ends at
\* that step in Locked with the record's lockedAt, whatever the time and the
\* draft slot; it issues no further request (the draft is not read) and both
\* slots stay as they are.
C9_BootstrapLocked ==
    [][ (boot.pc = "getLocked" /\ boot' # boot /\ ~IsReload /\ HasVault
           /\ last'.fault = "none")
        => (/\ state'.status = "locked" /\ state'.lockedAt = locked.lockedAt
            /\ boot'.pc = "ready"
            /\ last'.op = "checkStatus" /\ last'.res = "locked"
            /\ txq' = Tail(txq)
            /\ UNCHANGED <<draft, locked>>) ]_vars

C9_Witness ==
    /\ last.op = "checkStatus" /\ last.res = "locked"
    /\ HasDraft
    /\ now >= LockDate
    /\ locked.lockedAt # now

C12_TriggerAtBootstrapOnly ==
    [][ /\ (state.status = "open" /\ state'.status = "locked")
           => (last'.op = "lockVault" /\ last'.res = "done")
        /\ (state.status = "open" /\ locked' # locked)
           => (last'.op = "lockVault" /\ last'.res = "done")
        /\ (now' # now) => UNCHANGED <<state, draft, locked, boot, ops, txq>>
        /\ (boot.pc = "getDraft" /\ boot' # boot /\ ~IsReload /\ now >= LockDate
              /\ last'.fault = "none")
           => (boot'.pc = "crypto" /\ state' = state /\ state.status = "loading") ]_vars

C12_Witness ==
    /\ state.status = "open" /\ boot.pc = "ready"
    /\ now >= LockDate
    /\ locked = Absent
    /\ HasDraft
    /\ last.op = "saveDraft" /\ last.res = "done" /\ last.data.calledIn = "open"
    /\ ops[1] = Idle /\ ops[2] = Idle

\* C13: after bootstrap has completed and outside of a commit in flight, the
\* store holds at least one of the draft and the encrypted record, also right
\* after the bootstrap of a brand-new vault before its first saveDraft.
C13_NeverNeither ==
    (boot.pc = "ready" /\ ~CommitInFlight) => (draft # Absent \/ locked # Absent)

\* C14: while a lockVault or unlockVault call is in flight a second one is
\* rejected or deferred: at no time are two of these calls in flight together.
C14_NotReentrant ==
    Cardinality({i \in Slots : ops[i].op \in {"lockVault", "unlockVault"}}) <= 1

\* C15: a lockVault commit seals the content the draft slot holds at that
\* moment, and no saveDraft called while Open lands after a lock commit, that
\* is, while the state is Locked.
C15_SaveNeverInterleavesWithLock ==
    [][ /\ (last'.op = "lockVault" /\ last'.res = "done" /\ HasDraft)
           => SealedContent(locked') = draft.content
        /\ (last'.op = "saveDraft" /\ last'.res = "done" /\ last'.fault = "none"
              /\ last'.data.calledIn = "open")
           => state.status # "locked" ]_vars

\* C16: unlockVault with the preset password that finds the encrypted slot
\* empty fails with an error of its own, different from the wrong-passphrase
\* errors, and the failing step changes neither the state nor the store.
C16_NotFoundIsDistinct ==
    [][ (last'.op = "unlockVault" /\ last'.res # "ignored" /\ last'.fault = "none"
           /\ last'.arg = PresetPassword /\ last'.data = Absent)
        => (/\ last'.res \notin {IncorrectPassword, IncorrectOrCorrupted, "done"}
            /\ UNCHANGED <<state, draft, locked>>) ]_vars

\* C17: downloadVault changes neither the in-memory state nor a slot of the
\* store (nor error); its only request is the get of the encrypted slot (no
\* key is derived, nothing is decrypted); when the slot holds a record the
\* file carries that record's ciphertext, iv, salt and lockedAt as stored.
C17_ExportIsReadOnlyAndVerbatim ==
    [][ /\ \A i \in Slots :
              ((ops[i].op = "downloadVault" \/ ops'[i].op = "downloadVault")
                 /\ ops'[i] # ops[i] /\ ~IsReload)
              => (/\ UNCHANGED <<state, draft, locked, error>>
                  /\ \/ ops[i] = Idle /\ ops'[i] = [op |-> "downloadVault", pc |-> "get"]
                     \/ ops[i].op = "downloadVault" /\ ops'[i] = Idle
                          /\ last'.op = "downloadVault")
        /\ (last'.op = "downloadVault")
           => (/\ UNCHANGED <<state, draft, locked, error>>
               /\ last'.res = "done"
                    => (locked # Absent /\ last'.data.json = locked)
               /\ (HasVault /\ last'.fault = "none" /\ db)
                    => (/\ last'.res = "done"
                        /\ last'.data.json.ciphertext = locked.ciphertext
                        /\ last'.data.json.iv = locked.iv
                        /\ last'.data.json.salt = locked.salt
                        /\ last'.data.json.lockedAt = locked.lockedAt)) ]_vars

C17_Witness ==
    /\ last.op = "downloadVault" /\ last.res = "done"
    /\ HasVault /\ last.data.json = locked
    /\ state.status = "locked"
    /\ locked.lockedAt # now

\* C18: for every string s, passphrase p, salt and iv, decrypting what was
\* encrypted from s under deriveKey(p, salt) and iv, with ciphertext, salt and
\* iv passed through bufferToBase64 and base64ToBuffer, under the key derived
\* again from p, succeeds and returns s.
C18_EncryptionRoundTrip ==
    (last.op = "decryptContent" /\ last.data.with = last.data.password)
    => (last.data.ok /\ last.data.content = last.arg)

\* C19: for all passphrases p1 # p2, decrypting a ciphertext produced under
\* deriveKey(p1, salt) with deriveKey(p2, salt) and the same iv fails and
\* returns no plaintext.
C19_OtherPassphraseFails ==
    (last.op = "decryptContent" /\ last.data.with # last.data.password)
    => (~last.data.ok /\ last.res = "OperationError")

\* C21: a bootstrap that reads a draft failing structural validation does not
\* fail and continues with empty content (Open before the lock date), and the
\* malformed record is no longer in the draft slot once it has completed.
C21_MalformedDraftDiscarded ==
    (last.op = "checkStatus" /\ last.res = "open" /\ last.fault = "none"
       /\ last.data = Malformed)
    => (/\ boot.pc = "ready"
        /\ state.status = "open" /\ state.content = <<>>
        /\ draft # Malformed)

\* C22: after a successful unlockVault the persisted draft and the Open state
\* carry the same lastUpdated, the time of the unlock and not the lockedAt of
\* the record that was unlocked.
C22_UnlockStampsOneTime ==
    (last.op = "unlockVault" /\ last.res = "done")
    => (/\ state.status = "open" /\ HasDraft
        /\ draft.lastUpdated = state.lastUpdated)

C24_RecordWrittenByLockRemovedByUnlock ==
    [][ /\ (locked' # locked /\ locked' # Absent)
           => (/\ encryptedVaultSchema(locked')
               /\ \/ last'.op = "lockVault" /\ last'.res = "done"
                  \/ last'.op = "checkStatus" /\ last'.res = "autolocked")
        /\ (HasVault /\ locked' # locked)
           => (/\ locked' = Absent
               /\ last'.op = "unlockVault" /\ last'.res = "done") ]_vars

\* The parts of C24 that do not depend on a second lock request: a record
\* appears only by the commit of a lock transition, and no step other than a
\* lock or unlock commit changes a present record.
C24_OtherWritersLeaveRecord ==
    [][ /\ (locked' # locked /\ locked' # Absent)
           => (/\ encryptedVaultSchema(locked')
               /\ \/ last'.op = "lockVault" /\ last'.res = "done"
                  \/ last'.op = "checkStatus" /\ last'.res = "autolocked")
        /\ (HasVault /\ locked' # locked)
           => \/ last'.op = "unlockVault" /\ last'.res = "done" /\ locked' = Absent
              \/ last'.op = "lockVault" /\ last'.res = "done" ]_vars

\* C25: once bootstrap has set the state to Open or Locked, no step of
\* saveDraft, lockVault, unlockVault or downloadVault, successful or failing,
\* returns it to Loading (only a reload of the page starts from Loading
\* again); the status is always one of loading, open, locked.
C25_LoadingNotReentered ==
    [][ /\ (state.status \in {"open", "locked"} /\ ~IsReload)
           => state'.status \in {"open", "locked"}
        /\ state'.status \in {"loading", "open", "locked"}
        /\ (state.status = "loading" /\ state'.status # "loading")
           => (last'.op = "checkStatus" /\ boot'.pc = "ready") ]_vars

C25_Witness ==
    /\ last.op = "unlockVault" /\ last.res = IncorrectOrCorrupted
    /\ last.fault = "commit"
    /\ state.status = "locked" /\ boot.pc = "ready"

C27_NoHalfTransition ==
    (boot.pc = "ready" /\ \A i \in Slots : ops[i] = Idle)
    => (/\ state.status = "locked" <=> HasVault
        /\ state.status = "open" <=> ~HasVault)

C27_Witness ==
    /\ boot.pc = "ready" /\ \A i \in Slots : ops[i] = Idle
    /\ last.op = "lockVault" /\ last.res = LockFailed /\ last.fault = "commit"
    /\ state.status = "open" /\ ~HasVault /\ HasDraft

\* C28: at now >= lockDate the vault does not stay open across bootstraps: a
\* bootstrap that completes without a crypto or storage failure ends in Locked
\* with an encrypted record in the store; when it found no record (the vault
\* had been unlocked) it commits a new one, stamped during that bootstrap,
\* with a salt and an iv drawn for it, sealed under the preset password and
\* holding the content of the draft it read (the last saved content), and the
\* draft is deleted.
C28_RelockedAtNextBootstrap ==
    [][ /\ (boot.pc # "ready" /\ boot'.pc = "ready" /\ last'.fault = "none"
              /\ now >= LockDate)
           => (/\ state'.status = "locked"
               /\ locked' # Absent /\ encryptedVaultSchema(locked')
               /\ state'.lockedAt = locked'.lockedAt
               /\ last'.res \in {"locked", "autolocked"})
        /\ (last'.op = "checkStatus" /\ last'.res = "autolocked")
           => (/\ now >= LockDate
               /\ ~HasVault
               /\ draft' = Absent
               /\ locked'.lockedAt >= LockDate /\ locked'.lockedAt <= now
               /\ base64ToBuffer(locked'.salt) \in RandomValues
               /\ base64ToBuffer(locked'.iv) \in RandomValues
               /\ base64ToBuffer(locked'.ciphertext).key
                    = deriveKey(PresetPassword, base64ToBuffer(locked'.salt))
               /\ base64ToBuffer(locked'.ciphertext).iv = base64ToBuffer(locked'.iv)
               /\ vaultContentSchema(last'.data)
                  => SealedContent(locked') = last'.data.content
               /\ (draft = last'.data /\ HasDraft /\ lastSaved # <<>>
                     /\ draft.content = lastSaved[1].content)
                  => SealedContent(locked') = lastSaved[1].content) ]_vars

C28_Witness ==
    /\ last.op = "checkStatus" /\ last.res = "autolocked"
    /\ vaultContentSchema(last.data) /\ last.data.content = <<97>>
    /\ last.data.lastUpdated >= LockDate
    /\ lastSaved = <<[content |-> <<97>>, interrupted |-> TRUE]>>
    /\ state.status = "locked" /\ HasVault /\ draft = Absent
    /\ SealedContent(locked) = <<97>>

\* C29: unlockVault called in state Locked with a passphrase other than the
\* preset one throws "Incorrect password. Please try again." before any
\* request to the store and leaves state and store unchanged, whatever the
\* record was sealed with; only calls with the preset passphrase proceed, and
\* a record they open was sealed under the key derived from the preset
\* passphrase and the record's salt.
C29_PresetPassphraseOnly ==
    [][ /\ (last'.op = "unlockVault" /\ last'.res # "ignored"
              /\ last'.arg # PresetPassword)
           => (/\ last'.res = IncorrectPassword
               /\ db /\ state.status = "locked"
               /\ UNCHANGED <<state, draft, locked, error, ops, txq>>)
        /\ (last'.op = "unlockVault" /\ last'.res = IncorrectPassword)
           => last'.arg # PresetPassword
        /\ \A i \in Slots :
              (ops'[i].op = "unlockVault" /\ ops[i] = Idle)
              => (ops'[i].password = PresetPassword /\ state.status = "locked")
        /\ (last'.op = "unlockVault" /\ last'.res = "done")
           => (/\ last'.arg = PresetPassword
               /\ base64ToBuffer(last'.data.ciphertext).key
                    = deriveKey(PresetPassword, base64ToBuffer(last'.data.salt))) ]_vars

C29_Witness ==
    /\ last.op = "unlockVault" /\ last.res = IncorrectPassword
    /\ last.arg = <<97, 98, 99>>
    /\ HasVault /\ SealedPassword(locked) = <<97, 98, 99>>
    /\ state.status = "locked"
    /\ \A i \in Slots : ops[i] = Idle

\* C30: when the auto-lock of a bootstrap fails at any step (random source,
\* key derivation, encryption, a request or the commit of its transaction),
\* the bootstrap still completes: the state becomes Open with the content and
\* lastUpdated taken from the draft that was read, the step of the failure
\* changes neither slot of the store (the draft stays, no encrypted record
\* appears) and error is not set.
C30_AutoLockFailureOpens ==
    [][ /\ (boot.pc \in {"crypto", "put", "delete"} /\ boot' # boot /\ ~IsReload)
           => \/ /\ boot'.pc \in {"put", "delete"}
                 /\ UNCHANGED <<state, draft, locked, error>>
              \/ /\ last'.op = "checkStatus" /\ last'.res = "autolocked"
                 /\ last'.fault = "none"
              \/ /\ last'.op = "checkStatus" /\ last'.res = "open"
                 /\ last'.fault # "none"
        /\ (last'.op = "checkStatus" /\ last'.res = "open" /\ last'.fault # "none")
           => (/\ boot.pc \in {"crypto", "put", "delete"}
               /\ boot'.pc = "ready"
               /\ state.status = "loading" /\ state'.status = "open"
               /\ state'.content = boot.content
               /\ state'.lastUpdated = boot.lastUpdated
               /\ vaultContentSchema(last'.data)
                  => (/\ state'.content = last'.data.content
                      /\ state'.lastUpdated = last'.data.lastUpdated)
               /\ ~vaultContentSchema(last'.data) => state'.content = <<>>
               /\ UNCHANGED <<draft, locked, error>>
               /\ ~HasVault) ]_vars

C30_Witness ==
    /\ last.op = "checkStatus" /\ last.res = "open" /\ last.fault = "commit"
    /\ now >= LockDate
    /\ HasDraft /\ draft = last.data /\ draft.content = <<97>>
    /\ state = [status |-> "open", content |-> <<97>>,
                lastUpdated |-> draft.lastUpdated]
    /\ locked = Absent /\ error = "null" /\ boot.pc = "ready"

\* C31: when opening the store fails or a read of the bootstrap throws, error
\* is set and the state stays Loading; from then on (until the page is
\* reloaded) no call of saveDraft, lockVault, unlockVault or downloadVault
\* moves the state out of Loading, and lockVault and unlockVault return at
\* their guard without a request to the store.
C31_FailedBootstrapStaysLoading ==
    [][ /\ (boot.pc # "failed" /\ boot'.pc = "failed")
           => (/\ error' \in {"Could not initialize storage.",
                              "Failed to load vault status."}
               /\ state = Loading /\ state' = Loading
               /\ UNCHANGED <<draft, locked>>)
        /\ (boot.pc = "failed" /\ ~IsReload)
           => (/\ state' = Loading
               /\ error' # "null"
               /\ boot' = boot
               /\ locked' = locked
               /\ \A i \in Slots : ops'[i].op \notin {"lockVault", "unlockVault"})
        /\ (boot.pc = "failed" /\ last'.op \in {"lockVault", "unlockVault"})
           => (/\ last'.res = "ignored"
               /\ UNCHANGED <<state, draft, locked, error, ops, txq>>) ]_vars

C31_Witness ==
    /\ boot.pc = "failed" /\ db
    /\ error = "Failed to load vault status."
    /\ state = Loading
    /\ last.op = "lockVault" /\ last.res = "ignored"
    /\ HasDraft

\* C32: whenever the state is Locked and no operation is in flight, its
\* lockedAt is the lockedAt of the encrypted record in the store (after a
\* bootstrap from a record, after the auto-lock, after lockVault, also when
\* two lockVault calls overlapped).
C32_LockedAtIsRecords ==
    (state.status = "locked" /\ \A i \in Slots : ops[i] = Idle)
    => (/\ locked # Absent /\ encryptedVaultSchema(locked)
        /\ state.lockedAt = locked.lockedAt)

C32_Witness ==
    /\ state.status = "locked" /\ \A i \in Slots : ops[i] = Idle
    /\ last.op = "lockVault" /\ last.res = "done"
    /\ locked # Absent /\ state.lockedAt = locked.lockedAt
    /\ locked.lockedAt # now
    /\ SealedPassword(locked) = <<97, 98, 99>>

\* C33: while the state is Open and the store accepts writes, a text change
\* that is followed by no further change leads to a saveDraft of exactly that
\* text and to a draft whose content is that text, with no timer and no save
\* left pending; and whenever nothing is pending after a save, the draft holds
\* the text of the textarea, so no save of an older text has overwritten it.
EditorQuiet ==
    /\ editor.saveTimeoutRef = <<>>
    /\ \A i \in Slots : ops[i].op # "saveDraft"

====
